---- MODULE Spec2Model ----
(***************************************************************************)
(* A model of the two maintenance scripts of decastrofelipe.com:           *)
(*   cleanup.py        unminify_css, clean_inline_style, prettify_html     *)
(*   rename_assets.py  strip_hex_prefix, collect_renames, execute_renames, *)
(*                     update_html_references, update_css_references       *)
(* Text is modelled character by character: a Python str is a sequence of  *)
(* one-character strings, and indices are 0-based as in the source (the    *)
(* operators At and Slice do the shift).                                   *)
(***************************************************************************)
EXTENDS Integers, Sequences, FiniteSets, TLC

VARIABLES
    css,      \* unminify_css: the argument
    i,        \* unminify_css: the cursor
    indent,   \* unminify_css: the nesting counter
    result,   \* unminify_css: the list of output lines
    text,     \* unminify_css: the returned string
    pc,       \* unminify_css: "scan" (in the while loop) or "done" (returned)
    iters,    \* number of iterations of the while loop started in this call
    pass,     \* 1: unminify_css(s); 2: unminify_css(unminify_css(s))
    first,    \* the value returned by the first call
    style_value,  \* clean_inline_style: the argument
    cleaned,      \* clean_inline_style: the local of that name
    spc,          \* clean_inline_style: the statement to run next
    filename,     \* strip_hex_prefix: the argument
    new_name,     \* strip_hex_prefix: the returned name
    npc,          \* strip_hex_prefix: "call" or "done"
    files,        \* the files under ROOT: relative path -> content
    renames,      \* rename_assets.renames, in insertion order: <<old, new>>
    rpc,          \* rename_assets.main: the call to make next
    html_in,      \* prettify_html: the argument as it was passed
    html,         \* prettify_html: the local of that name, rewritten in place
    lines,        \* prettify_html: html.split('\n')
    ln,           \* prettify_html: how many lines the for loop has taken
    hindent,      \* prettify_html: the indent counter of the for loop
    indented,     \* prettify_html: the list of emitted lines
    prettified,   \* prettify_html: the value returned
    hpc,          \* prettify_html: the block of statements to run next
    disk,         \* cleanup.py: the files under WORKSPACE, relative path -> content
    disk0,        \* cleanup.py: the files under WORKSPACE before the run
    mpc           \* cleanup.py __main__: the call to make next

cssVars == <<css, i, indent, result, text, pc, iters, pass, first>>
styleVars == <<style_value, cleaned, spc>>
nameVars == <<filename, new_name, npc>>
renameVars == <<files, renames, rpc>>
htmlVars == <<html_in, html, lines, ln, hindent, indented, prettified, hpc>>

cleanupVars == <<disk, disk0, mpc>>

vars == <<cssVars, styleVars, nameVars, renameVars, htmlVars, cleanupVars>>

\* the variables of the other components, which a component leaves alone
notCss == <<styleVars, nameVars, renameVars, htmlVars, cleanupVars>>
notStyle == <<cssVars, nameVars, renameVars, htmlVars, cleanupVars>>
notName == <<cssVars, styleVars, renameVars, htmlVars, cleanupVars>>
notRename == <<cssVars, styleVars, nameVars, htmlVars, cleanupVars>>
notHtml == <<cssVars, styleVars, nameVars, renameVars, cleanupVars>>
notCleanup == <<cssVars, styleVars, nameVars, renameVars, htmlVars>>

(***************************************************************************)
(* Python str and list primitives                                          *)
(***************************************************************************)

\* s[k] with a 0-based index
At(s, k) == s[k + 1]

\* s[a:b] for 0 <= a, clamped to the string as Python does
Slice(s, a, b) ==
    LET hi == IF b > Len(s) THEN Len(s) ELSE b
    IN  IF a >= hi THEN <<>> ELSE SubSeq(s, a + 1, hi)

\* s[k:].startswith(lit)
StartsAt(s, k, lit) == Slice(s, k, k + Len(lit)) = lit

Max(a, b) == IF a >= b THEN a ELSE b

\* the least and the greatest member of a non-empty set of integers
Least(S) == CHOOSE x \in S : \A y \in S : x <= y
Greatest(S) == CHOOSE x \in S : \A y \in S : x >= y

\* s.find(lit, from): the first index >= from where lit occurs, or -1
Find(s, lit, from) ==
    LET hits == { k \in from..(Len(s) - Len(lit)) : StartsAt(s, k, lit) }
    IN  IF hits = {} THEN -1 ELSE Least(hits)

\* the first index >= from whose character is in chars, or len(s)
FirstIn(s, from, chars) ==
    LET hits == { k \in from..(Len(s) - 1) : At(s, k) \in chars }
    IN  IF hits = {} THEN Len(s) ELSE Least(hits)

\* the first index >= from whose character is not in chars, or len(s)
FirstNotIn(s, from, chars) ==
    LET hits == { k \in from..(Len(s) - 1) : At(s, k) \notin chars }
    IN  IF hits = {} THEN Len(s) ELSE Least(hits)

\* the last index whose character is not in chars, or -1
LastNotIn(s, chars) ==
    LET hits == { k \in 0..(Len(s) - 1) : At(s, k) \notin chars }
    IN  IF hits = {} THEN -1 ELSE Greatest(hits)

\* lit in s
Contains(s, lit) == Find(s, lit, 0) # -1

RECURSIVE Repeat(_, _)
\* s * n
Repeat(s, n) == IF n <= 0 THEN <<>> ELSE s \o Repeat(s, n - 1)

RECURSIVE Join(_, _)
\* sep.join(parts)
Join(sep, parts) ==
    IF parts = <<>> THEN <<>>
    ELSE IF Len(parts) = 1 THEN parts[1]
    ELSE parts[1] \o sep \o Join(sep, Tail(parts))

\* the characters str.strip() removes (Unicode whitespace), as far as the
\* model's alphabets hold them
PyWhitespace == {" ", "\t", "\n", "\r", "\f"}

\* s.lstrip(chars), s.rstrip(chars)
LStripChars(s, chars) == Slice(s, FirstNotIn(s, 0, chars), Len(s))
RStripChars(s, chars) == Slice(s, 0, LastNotIn(s, chars) + 1)

\* s.strip()
Strip(s) == RStripChars(LStripChars(s, PyWhitespace), PyWhitespace)

RECURSIVE CollapseFrom(_, _)
\* from index k: the text up to the next newline unchanged, a run of three
\* or more newlines as two, a shorter run unchanged
CollapseFrom(s, k) ==
    LET nl == FirstIn(s, k, {"\n"})
        end == FirstNotIn(s, nl, {"\n"})
    IN  IF nl >= Len(s) THEN Slice(s, k, Len(s))
        ELSE Slice(s, k, nl)
             \o (IF end - nl >= 3 THEN <<"\n", "\n">> ELSE Slice(s, nl, end))
             \o CollapseFrom(s, end)

\* re.sub(r'\n{3,}', '\n\n', s)
CollapseBlankLines(s) == CollapseFrom(s, 0)

\* s.count(c) for a single character c
Count(s, c) == Cardinality({ k \in 1..Len(s) : s[k] = c })

(***************************************************************************)
(* cleanup.py: unminify_css                                                *)
(***************************************************************************)

\* ' \t\n\r', the characters the scan skips between tokens
ScanWhitespace == {" ", "\t", "\n", "\r"}

\* '{};', the characters that end a chunk
ChunkEnders == {"{", "}", ";"}

\* '  ' * indent
Pad(n) == Repeat(<<" ", " ">>, n)

CommentOpen == <<"/", "*">>
CommentClose == <<"*", "/">>

IsComment(s, k) == StartsAt(s, k, CommentOpen)
IsWhitespace(s, k) == At(s, k) \in ScanWhitespace
IsCloseBrace(s, k) == At(s, k) = "}"

\* the comment branch: copy the comment, or the rest of the input when the
\* comment is not closed, onto a line of its own
CommentStep(s, st) ==
    LET found == Find(s, CommentClose, st.i + 2)
        end == IF found = -1 THEN Len(s) ELSE found + 2
    IN  [st EXCEPT !.result = Append(@, Pad(st.indent) \o Slice(s, st.i, end)),
                   !.i = end]

WhitespaceStepNoAdvance(s, st) == st

\* the whitespace branch: skip one character
WhitespaceStep(s, st) == [st EXCEPT !.i = @ + 1]

CloseBraceStepNoClamp(s, st) ==
    LET ind == st.indent - 1
    IN  [st EXCEPT !.indent = ind,
                   !.result = @ \o <<Pad(ind) \o <<"}">>, <<>> >>,
                   !.i = @ + 1]

\* the closing-brace branch: one level out, never below 0
CloseBraceStep(s, st) ==
    LET ind == Max(0, st.indent - 1)
    IN  [st EXCEPT !.indent = ind,
                   !.result = @ \o <<Pad(ind) \o <<"}">>, <<>> >>,
                   !.i = @ + 1]

\* the inner while loop: the first index >= k holding '{', '}' or ';', or len(s)
ChunkEnd(s, k) == FirstIn(s, k, ChunkEnders)

\* the chunk branch: read up to '{', '}', ';' or the end of the input
ChunkStep(s, st) ==
    LET j == ChunkEnd(s, st.i)
        chunk == Strip(Slice(s, st.i, j))
        pad == Pad(st.indent)
    IN  IF j < Len(s) /\ At(s, j) = "{"
        THEN [st EXCEPT !.result = Append(@, pad \o chunk \o <<" ", "{">>),
                        !.indent = @ + 1,
                        !.i = j + 1]
        ELSE IF j < Len(s) /\ At(s, j) = ";"
        THEN [st EXCEPT !.result = IF chunk # <<>>
                                   THEN Append(@, pad \o chunk \o <<";">>)
                                   ELSE @,
                        !.i = j + 1]
        ELSE IF j < Len(s) /\ At(s, j) = "}"
        THEN LET ind == Max(0, st.indent - 1)
             IN  [st EXCEPT !.result =
                                (IF chunk # <<>>
                                 THEN Append(@, pad \o chunk \o <<";">>)
                                 ELSE @) \o <<Pad(ind) \o <<"}">>, <<>> >>,
                            !.indent = ind,
                            !.i = j + 1]
        ELSE [st EXCEPT !.result = IF chunk # <<>>
                                   THEN Append(@, pad \o chunk)
                                   ELSE @,
                        !.i = j]

\* the lines after the loop: join, collapse blank lines, strip, one newline
UnminifyFinish(rs) ==
    Strip(CollapseBlankLines(Join(<<"\n">>, rs))) \o <<"\n">>

\* the loop's own variables, as one record
ScanState == [i |-> i, indent |-> indent, result |-> result]

Iterate(st) ==
    /\ i' = st.i
    /\ indent' = st.indent
    /\ result' = st.result
    /\ iters' = iters + 1
    /\ UNCHANGED <<css, text, pc, pass, first>>
    /\ UNCHANGED notCss

ScanComment ==
    /\ pc = "scan" /\ i < Len(css)
    /\ IsComment(css, i)
    /\ Iterate(CommentStep(css, ScanState))

ScanSkipWhitespace ==
    /\ pc = "scan" /\ i < Len(css)
    /\ ~IsComment(css, i) /\ IsWhitespace(css, i)
    /\ Iterate(WhitespaceStep(css, ScanState))

ScanCloseBrace ==
    /\ pc = "scan" /\ i < Len(css)
    /\ ~IsComment(css, i) /\ ~IsWhitespace(css, i) /\ IsCloseBrace(css, i)
    /\ Iterate(CloseBraceStep(css, ScanState))

ScanChunk ==
    /\ pc = "scan" /\ i < Len(css)
    /\ ~IsComment(css, i) /\ ~IsWhitespace(css, i) /\ ~IsCloseBrace(css, i)
    /\ Iterate(ChunkStep(css, ScanState))

\* the loop condition fails: lines 91-94 build the returned string
UnminifyReturn ==
    /\ pc = "scan" /\ i >= Len(css)
    /\ text' = UnminifyFinish(result)
    /\ pc' = "done"
    /\ UNCHANGED <<css, i, indent, result, iters, pass, first>>
    /\ UNCHANGED notCss

\* unminify_css applied to its own output
UnminifyAgain ==
    /\ pc = "done" /\ pass = 1
    /\ css' = text
    /\ first' = text
    /\ pass' = 2
    /\ i' = 0 /\ indent' = 0 /\ result' = <<>> /\ iters' = 0
    /\ text' = <<>>
    /\ pc' = "scan"
    /\ UNCHANGED notCss

\* the inputs: up to MaxCssPieces pieces, each one of CssPieces
MaxCssPieces == 4

CssPieces ==
    { <<"{">>, <<"}">>, <<";">>, <<"a">>, <<" ">>, <<"\n">>, <<"\f">>,
      CommentOpen, CommentClose }

RECURSIVE Concat(_)
Concat(parts) == IF parts = <<>> THEN <<>> ELSE Head(parts) \o Concat(Tail(parts))

Inputs(pieces, max) ==
    { Concat(p) : p \in UNION { [1..n -> pieces] : n \in 0..max } }

\* the state before unminify_css is called on the string s
CallUnminify(s) ==
    /\ css = s
    /\ i = 0 /\ indent = 0 /\ result = <<>> /\ text = <<>>
    /\ pc = "scan" /\ iters = 0 /\ pass = 1 /\ first = <<>>

\* unminify_css is not running
IdleCss ==
    /\ css = <<>>
    /\ i = 0 /\ indent = 0 /\ result = <<>> /\ text = <<>>
    /\ pc = "idle" /\ iters = 0 /\ pass = 0 /\ first = <<>>

RECURSIVE ScanLoop(_, _)
\* the while loop, run to its end from the state st
ScanLoop(s, st) ==
    IF st.i >= Len(s) THEN st
    ELSE IF IsComment(s, st.i) THEN ScanLoop(s, CommentStep(s, st))
    ELSE IF IsWhitespace(s, st.i) THEN ScanLoop(s, WhitespaceStep(s, st))
    ELSE IF IsCloseBrace(s, st.i) THEN ScanLoop(s, CloseBraceStep(s, st))
    ELSE ScanLoop(s, ChunkStep(s, st))

\* unminify_css(s) as a function of its argument
Unminify(s) ==
    UnminifyFinish(ScanLoop(s, [i |-> 0, indent |-> 0, result |-> <<>>]).result)

NextCss ==
    \/ ScanComment
    \/ ScanSkipWhitespace
    \/ ScanCloseBrace
    \/ ScanChunk
    \/ UnminifyReturn
    \/ UnminifyAgain

(***************************************************************************)
(* cleanup.py: clean_inline_style                                          *)
(***************************************************************************)

\* \s of Python's re for str patterns, as far as the alphabets hold it
ReWhitespace == {" ", "\t", "\n", "\r", "\f"}

\* the index where a greedy \s* that starts at k ends
SkipWs(s, k) == FirstNotIn(s, k, ReWhitespace)

WebkitTransform ==
    <<"-", "w", "e", "b", "k", "i", "t", "-", "t", "r", "a", "n", "s", "f",
      "o", "r", "m", ":">>

MozTransform ==
    <<"-", "m", "o", "z", "-", "t", "r", "a", "n", "s", "f", "o", "r", "m",
      ":">>

MsTransform ==
    <<"-", "m", "s", "-", "t", "r", "a", "n", "s", "f", "o", "r", "m", ":">>

\* where a match of  prop\s*[^;]+;\s*  that starts at k ends, or -1: after the
\* property name at least one character other than ';' (the \s* gives back a
\* character when only whitespace stands there), then ';', then whitespace
DeclMatchEnd(s, k, prop) ==
    LET p == k + Len(prop)
        semi == Find(s, <<";">>, p)
    IN  IF StartsAt(s, k, prop) /\ semi # -1 /\ semi > p
        THEN SkipWs(s, semi + 1)
        ELSE -1

RECURSIVE RemoveDeclFrom(_, _, _)
\* from index k: the text up to the next match kept, the match dropped
RemoveDeclFrom(s, k, prop) ==
    LET j == Find(s, prop, k)
        e == DeclMatchEnd(s, j, prop)
    IN  IF j = -1 THEN Slice(s, k, Len(s))
        ELSE IF e # -1 THEN Slice(s, k, j) \o RemoveDeclFrom(s, e, prop)
        ELSE Slice(s, k, j + 1) \o RemoveDeclFrom(s, j + 1, prop)

\* re.sub(prop + r'\s*[^;]+;\s*', '', s)
RemoveDecl(s, prop) == RemoveDeclFrom(s, 0, prop)

RECURSIVE MergeSemisFrom(_, _)
\* from index k: the text up to the next ';' kept; that ';', whitespace and
\* a second ';' become one ';'
MergeSemisFrom(s, k) ==
    LET j == FirstIn(s, k, {";"})
        q == SkipWs(s, j + 1)
    IN  IF j >= Len(s) THEN Slice(s, k, Len(s))
        ELSE IF q < Len(s) /\ At(s, q) = ";"
        THEN Slice(s, k, j + 1) \o MergeSemisFrom(s, q + 1)
        ELSE Slice(s, k, j + 1) \o MergeSemisFrom(s, j + 1)

\* re.sub(r';\s*;', ';', s)
MergeSemis(s) == MergeSemisFrom(s, 0)

\* re.sub(r'^\s*;\s*', '', s)
DropLeadingSemi(s) ==
    LET q == SkipWs(s, 0)
    IN  IF q < Len(s) /\ At(s, q) = ";"
        THEN Slice(s, SkipWs(s, q + 1), Len(s))
        ELSE s

\* s.strip().rstrip(';').strip()
TrimValue(s) == Strip(RStripChars(Strip(s), {";"}))

\* clean_inline_style(style_value) as a function of its argument
CleanInlineStyle(s) ==
    TrimValue(DropLeadingSemi(MergeSemis(
        RemoveDecl(RemoveDecl(RemoveDecl(s, WebkitTransform), MozTransform),
                   MsTransform))))

StyleStep(from, to, value) ==
    /\ spc = from
    /\ cleaned' = value
    /\ spc' = to
    /\ UNCHANGED style_value
    /\ UNCHANGED notStyle

\* line 102
RemoveWebkit == StyleStep("webkit", "moz", RemoveDecl(style_value, WebkitTransform))
\* line 103
RemoveMoz == StyleStep("moz", "ms", RemoveDecl(cleaned, MozTransform))
\* line 104
RemoveMs == StyleStep("ms", "semis", RemoveDecl(cleaned, MsTransform))
\* line 107
CleanSemis == StyleStep("semis", "lead", MergeSemis(cleaned))
\* line 108
CleanLeading == StyleStep("lead", "trim", DropLeadingSemi(cleaned))
\* lines 109-111
CleanReturn == StyleStep("trim", "done", TrimValue(cleaned))

\* the declarations the inputs are built from
StyleDecls ==
    { WebkitTransform \o <<" ", "X">>,
      MozTransform \o <<" ", "Y">>,
      MsTransform \o <<"Z">>,
      <<"t", "r", "a", "n", "s", "f", "o", "r", "m", ":", " ", "s", "c", "a",
        "l", "e", "(", "1", ")">>,
      <<"c", "o", "l", "o", "r", ":", "r", "e", "d">> }

\* what follows a declaration that is not the last, and what may follow the last
StyleSeps == { <<";">>, <<";", " ">> }
StyleEnds == StyleSeps \cup { <<>> }

MaxDecls == 3

\* the values of n declarations: d[1] sp[1] d[2] ... sp[n-1] d[n] e
StyleInputsOf(n) ==
    { Concat([k \in 1..(2 * n) |->
                 IF k % 2 = 1 THEN x[1][(k + 1) \div 2]
                 ELSE IF k = 2 * n THEN x[3] ELSE x[2][k \div 2]]) :
        x \in [1..n -> StyleDecls] \X [1..(n - 1) -> StyleSeps] \X StyleEnds }

StyleInputs == { <<>> } \cup UNION { StyleInputsOf(n) : n \in 1..MaxDecls }

CallCleanInlineStyle(s) ==
    /\ style_value = s /\ cleaned = <<>> /\ spc = "webkit"

IdleStyle ==
    /\ style_value = <<>> /\ cleaned = <<>> /\ spc = "idle"

NextStyle ==
    \/ RemoveWebkit
    \/ RemoveMoz
    \/ RemoveMs
    \/ CleanSemis
    \/ CleanLeading
    \/ CleanReturn

(***************************************************************************)
(* rename_assets.py: strip_hex_prefix                                      *)
(***************************************************************************)

\* [0-9a-f] under re.IGNORECASE
HexDigits ==
    { "0", "1", "2", "3", "4", "5", "6", "7", "8", "9",
      "a", "b", "c", "d", "e", "f", "A", "B", "C", "D", "E", "F" }

\* the 20 of {20,}
MinHexLen == 20

\* the number of hexadecimal characters from index k on
HexRun(s, k) == FirstNotIn(s, k, HexDigits) - k

\* the text group 1 of  (.+)$  takes from r, or <<>> when it does not match
\* the whole of r: '.' is any character but a newline, and '$' stands at the
\* end of the string or before a newline that ends it
DotPlusToEnd(r) ==
    LET body == IF r # <<>> /\ r[Len(r)] = "\n"
                THEN SubSeq(r, 1, Len(r) - 1) ELSE r
    IN  IF ~Contains(body, <<"\n">>) THEN body ELSE <<>>

\* strip_hex_prefix(filename): re.match(r'^[0-9a-f]{20,}_(.+)$', ...); the
\* greedy run of hex digits must be followed by '_', which is no hex digit,
\* so the prefix is the whole run
StripHexPrefix(name) ==
    LET n == HexRun(name, 0)
        group == IF n >= MinHexLen /\ n < Len(name) /\ At(name, n) = "_"
                 THEN DotPlusToEnd(Slice(name, n + 1, Len(name)))
                 ELSE <<>>
    IN  IF group # <<>> THEN group ELSE name

StripReturn ==
    /\ npc = "call"
    /\ new_name' = StripHexPrefix(filename)
    /\ npc' = "done"
    /\ UNCHANGED filename
    /\ UNCHANGED notName

\* nineteen hexadecimal characters: with one more piece the run reaches 20
Hex19 ==
    <<"6", "3", "0", "3", "c", "4", "2", "f", "e", "8", "b", "8", "1", "f",
      "e", "e", "3", "2", "3">>

ExampleName ==
    <<"6", "3", "0", "3", "c", "4", "2", "f", "e", "8", "b", "8", "1", "f",
      "e", "e", "3", "2", "3", "5", "9", "e", "5", "c", "_", "F", "e", "l",
      "i", "p", "e", " ", "d", "e", " ", "C", "a", "s", "t", "r", "o", ".",
      "s", "v", "g">>

NameChars == { "e", "5", "C", "_", "g", ".", " ", "\n" }

MaxNameLen == 4

NameInputs ==
    ({ h \o t : h \in { <<>>, Hex19 },
                t \in UNION { [1..n -> NameChars] : n \in 0..MaxNameLen } }
        \cup { ExampleName }) \ { <<>> }

CallStripHexPrefix(name) ==
    /\ filename = name /\ new_name = <<>> /\ npc = "call"

IdleName ==
    /\ filename = <<>> /\ new_name = <<>> /\ npc = "idle"

NextName == StripReturn

(***************************************************************************)
(* rename_assets.py: collect_renames, execute_renames, update_*_references *)
(***************************************************************************)

\* the characters of the model's paths and documents, in code point order
CodePoints ==
    << " ", "%", "-", ".", "/",
       "0", "1", "2", "3", "4", "5", "6", "7", "8", "9",
       "A", "B", "C", "D", "E", "F", "_",
       "a", "b", "c", "d", "e", "f", "g", "h", "i", "j", "k", "l", "m",
       "n", "o", "p", "q", "r", "s", "t", "u", "v", "w", "x", "y", "z" >>

Ord(c) == CHOOSE k \in 1..Len(CodePoints) : CodePoints[k] = c

\* a < b for two str: the first differing character decides, a prefix is less
StrLess(a, b) ==
    LET n == IF Len(a) < Len(b) THEN Len(a) ELSE Len(b)
        diffs == { k \in 1..n : a[k] # b[k] }
    IN  IF diffs = {} THEN Len(a) < Len(b)
        ELSE Ord(a[Least(diffs)]) < Ord(b[Least(diffs)])

\* s.rfind(c) for a single character c: its last index, or -1
RFind(s, c) ==
    LET hits == { k \in 0..(Len(s) - 1) : At(s, k) = c }
    IN  IF hits = {} THEN -1 ELSE Greatest(hits)

\* os.path.dirname and os.path.basename of a relative path
Dirname(path) ==
    LET k == RFind(path, "/")
    IN  IF k = -1 THEN <<>> ELSE Slice(path, 0, k)

Basename(path) == Slice(path, RFind(path, "/") + 1, Len(path))

\* os.path.join(a, b) for relative paths
PathJoin(a, b) == IF a = <<>> THEN b ELSE a \o <<"/">> \o b

\* path lies under the directory dir
Under(path, dir) == StartsAt(path, 0, dir \o <<"/">>)

\* s.endswith(suffix)
EndsWith(s, suffix) ==
    Len(s) >= Len(suffix) /\ Slice(s, Len(s) - Len(suffix), Len(s)) = suffix

AssetsDir ==
    <<"a", "s", "s", "e", "t", "s">>

\* old_main, new_main, old_secondary and old_css_dir, relative to ROOT
OldMain ==
    <<"a", "s", "s", "e", "t", "s", "/", "6", "3", "0", "3", "b", "b", "d",
      "e", "7", "e", "8", "8", "9", "1", "5", "5", "2", "c", "3", "3", "3",
      "a", "0", "0">>

NewMain ==
    <<"a", "s", "s", "e", "t", "s", "/", "i", "m", "g">>

OldSecondary ==
    <<"a", "s", "s", "e", "t", "s", "/", "6", "0", "2", "2", "a", "f", "9",
      "9", "3", "a", "6", "b", "2", "1", "9", "1", "d", "b", "3", "e", "d",
      "1", "0", "c">>

OldCssDir ==
    <<"a", "s", "s", "e", "t", "s", "/", "c", "s", "s">>

WebflowShared ==
    <<"w", "e", "b", "f", "l", "o", "w", ".", "s", "h", "a", "r", "e", "d">>

StyleCss ==
    <<"s", "t", "y", "l", "e", ".", "c", "s", "s">>

\* the new relative path of a file found by the walk of old_main
NewPathMain(old) ==
    LET rel == Slice(old, Len(OldMain) + 1, Len(old))
        subdir == Dirname(rel)
        basename == Basename(rel)
    IN  IF subdir \in { <<"c", "s", "s">>, <<"j", "s">> }
        THEN PathJoin(PathJoin(NewMain, subdir),
                      IF subdir = <<"c", "s", "s">>
                            /\ Contains(basename, WebflowShared)
                      THEN StyleCss ELSE basename)
        ELSE PathJoin(NewMain, StripHexPrefix(basename))

\* the new relative path of a file found by the walk of old_secondary
NewPathSecondary(old) == PathJoin(NewMain, StripHexPrefix(Basename(old)))

\* the new relative path of a stylesheet listed in assets/css
NewPathCss(old) == PathJoin(OldCssDir, StyleCss)

\* the files each of the three passes of collect_renames finds
MainFiles(fs) == { f \in DOMAIN fs : Under(f, OldMain) }
SecondaryFiles(fs) == { f \in DOMAIN fs : Under(f, OldSecondary) }
CssDirFiles(fs) ==
    { f \in DOMAIN fs : Dirname(f) = OldCssDir
                          /\ Contains(Basename(f), WebflowShared) }

\* the orders in which a directory walk may list the files of a set
Listings(S) ==
    { q \in [1..Cardinality(S) -> S] :
        \A a, b \in 1..Cardinality(S) : a # b => q[a] # q[b] }

\* collect_renames: the three passes fill the dict in the order the walks
\* list the files, which the file system chooses
CollectRenames ==
    /\ rpc = "collect"
    /\ \E m \in Listings(MainFiles(files)),
          sec \in Listings(SecondaryFiles(files)),
          c \in Listings(CssDirFiles(files)) :
            renames' = [k \in 1..Len(m) |-> <<m[k], NewPathMain(m[k])>>]
                    \o [k \in 1..Len(sec) |-> <<sec[k], NewPathSecondary(sec[k])>>]
                    \o [k \in 1..Len(c) |-> <<c[k], NewPathCss(c[k])>>]
    /\ rpc' = "execute"
    /\ UNCHANGED files
    /\ UNCHANGED notRename

RECURSIVE InsertByKey(_, _)
InsertByKey(sorted, x) ==
    IF sorted = <<>> THEN <<x>>
    ELSE IF StrLess(x[1], Head(sorted)[1]) THEN <<x>> \o sorted
    ELSE <<Head(sorted)>> \o InsertByKey(Tail(sorted), x)

RECURSIVE SortedItems(_)
\* sorted(renames.items()): by old path, the keys being distinct
SortedItems(items) ==
    IF items = <<>> THEN <<>>
    ELSE InsertByKey(SortedItems(SubSeq(items, 1, Len(items) - 1)),
                     items[Len(items)])

\* shutil.move(old, new) when old exists: new takes its content
MoveFile(fs, old, new) ==
    IF old \notin DOMAIN fs THEN fs
    ELSE [f \in (DOMAIN fs \ {old}) \cup {new} |->
             IF f = new THEN fs[old] ELSE fs[f]]

RECURSIVE MoveAll(_, _)
MoveAll(fs, items) ==
    IF items = <<>> THEN fs
    ELSE MoveAll(MoveFile(fs, Head(items)[1], Head(items)[2]), Tail(items))

\* shutil.rmtree of the two hash folders
RemoveHashFolders(fs) ==
    [f \in { g \in DOMAIN fs : ~Under(g, OldMain) /\ ~Under(g, OldSecondary) }
        |-> fs[f]]

\* execute_renames: every move in sorted order, then the folders' removal
ExecuteRenames ==
    /\ rpc = "execute"
    /\ files' = RemoveHashFolders(MoveAll(files, SortedItems(renames)))
    /\ rpc' = "html"
    /\ UNCHANGED renames
    /\ UNCHANGED notRename

\* urllib.parse.quote of one character with safe='/': of the model's
\* characters only the space and the percent sign are escaped
QuoteChar(c) ==
    IF c = " " THEN <<"%", "2", "0">>
    ELSE IF c = "%" THEN <<"%", "2", "5">>
    ELSE <<c>>

RECURSIVE QuoteFrom(_, _)
\* from index k: the text up to the next escaped character, its escape, ...
QuoteFrom(s, k) ==
    LET j == FirstIn(s, k, {" ", "%"})
    IN  IF j >= Len(s) THEN Slice(s, k, Len(s))
        ELSE Slice(s, k, j) \o QuoteChar(At(s, j)) \o QuoteFrom(s, j + 1)

\* urllib.parse.quote(s, safe='/')
Quote(s) == QuoteFrom(s, 0)

RECURSIVE ReplacementPairs(_)
\* the list both update functions build: per entry the encoded pair, and the
\* raw pair when encoding changes the old path
ReplacementPairs(items) ==
    IF items = <<>> THEN <<>>
    ELSE LET old == Head(items)[1]
             new == Head(items)[2]
         IN  <<<<Quote(old), Quote(new)>>>>
             \o (IF old # Quote(old) THEN <<<<old, new>>>> ELSE <<>>)
             \o ReplacementPairs(Tail(items))

RECURSIVE InsertByLength(_, _)
InsertByLength(sorted, x) ==
    IF sorted = <<>> THEN <<x>>
    ELSE IF Len(x[1]) > Len(Head(sorted)[1]) THEN <<x>> \o sorted
    ELSE <<Head(sorted)>> \o InsertByLength(Tail(sorted), x)

RECURSIVE LongestFirst(_)
\* list.sort(key=len of the old text, reverse=True): stable, so pairs of one
\* length keep their order
LongestFirst(pairs) ==
    IF pairs = <<>> THEN <<>>
    ELSE InsertByLength(LongestFirst(SubSeq(pairs, 1, Len(pairs) - 1)),
                        pairs[Len(pairs)])

Replacements(items) == LongestFirst(ReplacementPairs(items))

RECURSIVE ReplaceFrom(_, _, _, _)
\* from index k: the text up to the next occurrence of old, then new, ...
ReplaceFrom(s, k, old, new) ==
    LET j == Find(s, old, k)
    IN  IF j = -1 THEN Slice(s, k, Len(s))
        ELSE Slice(s, k, j) \o new \o ReplaceFrom(s, j + Len(old), old, new)

\* s.replace(old, new) for a non-empty old
Replace(s, old, new) == ReplaceFrom(s, 0, old, new)

RECURSIVE ReplaceEach(_, _)
\* the loop over the replacement pairs, in their order
ReplaceEach(content, pairs) ==
    IF pairs = <<>> THEN content
    ELSE ReplaceEach(Replace(content, Head(pairs)[1], Head(pairs)[2]),
                     Tail(pairs))

DotHtml == <<".", "h", "t", "m", "l">>
DotCss == <<".", "c", "s", "s">>

\* glob(ROOT/*.html) and glob(ROOT/assets/**/*.css, recursive)
IsRootHtml(f) == ~Contains(f, <<"/">>) /\ EndsWith(f, DotHtml)
IsAssetCss(f) == Under(f, AssetsDir) /\ EndsWith(Basename(f), DotCss)

UpdateHtmlReferences ==
    /\ rpc = "html"
    /\ files' = [f \in DOMAIN files |->
                    IF IsRootHtml(f)
                    THEN ReplaceEach(files[f], Replacements(renames))
                    ELSE files[f]]
    /\ rpc' = "css"
    /\ UNCHANGED renames
    /\ UNCHANGED notRename

UpdateCssReferences ==
    /\ rpc = "css"
    /\ files' = [f \in DOMAIN files |->
                    IF IsAssetCss(f)
                    THEN ReplaceEach(files[f], Replacements(renames))
                    ELSE files[f]]
    /\ rpc' = "done"
    /\ UNCHANGED renames
    /\ UNCHANGED notRename

\* the asset files a run may find
AssetCandidates ==
    { PathJoin(OldMain,
        <<"a", ".", "p", "n", "g">>),
      PathJoin(OldMain,
        <<"i", "m", "a", "g", "e", "s", "/", "a", " ", "b", ".", "p", "n",
          "g">>),
      PathJoin(OldMain,
        <<"c", "s", "s", "/", "x", ".", "w", "e", "b", "f", "l", "o", "w",
          ".", "s", "h", "a", "r", "e", "d", ".", "c", "s", "s">>),
      PathJoin(OldMain,
        <<"j", "s", "/", "w", "e", "b", "f", "l", "o", "w", ".", "j", "s">>),
      PathJoin(OldSecondary,
        <<"6", "3", "0", "3", "c", "4", "2", "f", "e", "8", "b", "8", "1",
          "f", "e", "e", "3", "2", "3", "5", "9", "e", "5", "c", "_", "a",
          ".", "p", "n", "g">>),
      PathJoin(OldSecondary,
        <<"a", "s", "s", "e", "t", "s", "/", "i", "m", "g", "/", "a", ".",
          "p", "n", "g", ".", "b", "a", "k">>),
      PathJoin(OldCssDir,
        <<"x", ".", "w", "e", "b", "f", "l", "o", "w", ".", "s", "h", "a",
          "r", "e", "d", ".", "c", "s", "s">>) }

IndexHtml ==
    <<"i", "n", "d", "e", "x", ".", "h", "t", "m", "l">>

MaxAssets == 2
MaxRefs == 3

\* the pieces of a document: the old paths, raw and encoded, and plain text
RefPieces(assets) ==
    assets \cup { Quote(a) : a \in assets }
        \cup { OldSecondary \o <<"/">>, <<".", "b", "a", "k">>, <<" ">> }

\* the file system before the run: the chosen assets and index.html; the
\* page and every stylesheet hold the text doc
InitialFiles(assets, doc) ==
    [f \in assets \cup {IndexHtml} |->
        IF f = IndexHtml \/ EndsWith(f, DotCss) THEN doc ELSE <<>>]

CallRenameMain(assets, doc) ==
    /\ files = InitialFiles(assets, doc)
    /\ renames = <<>>
    /\ rpc = "collect"

IdleRename ==
    /\ files = <<>> /\ renames = <<>> /\ rpc = "idle"

NextRename ==
    \/ CollectRenames
    \/ ExecuteRenames
    \/ UpdateHtmlReferences
    \/ UpdateCssReferences

(***************************************************************************)
(* cleanup.py: format_embedded_style and prettify_html                     *)
(*                                                                         *)
(* Each regular expression of prettify_html is a pattern name; MatchEnd    *)
(* says where a match that starts at a given index ends, Replacement what  *)
(* re.sub puts in its place, and Sub is re.sub itself.                     *)
(***************************************************************************)

CommentStart ==
    <<"<", "!", "-", "-">>

LastPublished ==
    <<"L", "a", "s", "t", " ", "P", "u", "b", "l", "i", "s", "h", "e", "d",
      ":">>

CommentEnd ==
    <<"-", "-", ">">>

StyleOpen ==
    <<"<", "s", "t", "y", "l", "e">>

StyleClose ==
    <<"<", "/", "s", "t", "y", "l", "e", ">">>

ScriptOpen ==
    <<"<", "s", "c", "r", "i", "p", "t">>

ScriptClose ==
    <<"<", "/", "s", "c", "r", "i", "p", "t", ">">>

SelfClose == <<"/", ">">>

StyleAttr ==
    <<"s", "t", "y", "l", "e", "=", "\"">>

EmptyStyleAttr ==
    <<"s", "t", "y", "l", "e", "=", "\"", "\"">>

\* the five attributes of lines 148-154, each with its '="'
MetadataAttrs ==
    << 
      <<"d", "a", "t", "a", "-", "w", "f", "-", "d", "o", "m", "a", "i", "n",
        "=", "\"">>,
      <<"d", "a", "t", "a", "-", "w", "f", "-", "p", "a", "g", "e", "=",
        "\"">>,
      <<"d", "a", "t", "a", "-", "w", "f", "-", "s", "i", "t", "e", "=",
        "\"">>,
      <<"d", "a", "t", "a", "-", "w", "f", "-", "p", "a", "g", "e", "-", "i",
        "d", "=", "\"">>,
      <<"d", "a", "t", "a", "-", "w", "f", "-", "e", "l", "e", "m", "e", "n",
        "t", "-", "i", "d", "=", "\"">> >>

RECURSIVE StyleValueEnd(_, _)
\* where (?:[^"\\]|\\.)* followed by '"' ends when the value starts at k: the
\* index of the closing quote, or -1; a backslash takes the next character
\* with it unless that is a newline
StyleValueEnd(s, k) ==
    LET q == FirstIn(s, k, {"\"", "\\"})
    IN  IF q >= Len(s) THEN -1
        ELSE IF At(s, q) = "\"" THEN q
        ELSE IF q + 1 < Len(s) /\ At(s, q + 1) # "\n" THEN StyleValueEnd(s, q + 2)
        ELSE -1

\* \s+ then the literal lit: the index after lit, or -1
AfterSpacesThen(s, j, lit) ==
    IF j < Len(s) /\ At(s, j) \in ReWhitespace /\ StartsAt(s, SkipWs(s, j), lit)
    THEN SkipWs(s, j) + Len(lit)
    ELSE -1

\* <tag[^>]*> at j: the index of its '>', or -1
OpenTagEnd(s, j, tag) ==
    LET g == FirstIn(s, j + Len(tag), {">"})
    IN  IF StartsAt(s, j, tag) /\ g < Len(s) THEN g ELSE -1

\* the index after the match of pattern pat that starts at index j, or -1
MatchEnd(pat, s, j) ==
    CASE pat = "published" ->
            \* <!--\s*Last Published:.*?-->
            LET q == SkipWs(s, j + Len(CommentStart))
                from == q + Len(LastPublished)
                e == Find(s, CommentEnd, from)
            IN  IF StartsAt(s, j, CommentStart) /\ StartsAt(s, q, LastPublished)
                      /\ e # -1 /\ FirstIn(s, from, {"\n"}) >= e
                THEN e + Len(CommentEnd) ELSE -1
      [] pat \in {"attr1", "attr2", "attr3", "attr4", "attr5"} ->
            \* \s+data-wf-...="[^"]*"
            LET lit == MetadataAttrs[CASE pat = "attr1" -> 1 [] pat = "attr2" -> 2
                                       [] pat = "attr3" -> 3 [] pat = "attr4" -> 4
                                       [] OTHER -> 5]
                v == AfterSpacesThen(s, j, lit)
                e == FirstIn(s, v, {"\""})
            IN  IF v # -1 /\ e < Len(s) THEN e + 1 ELSE -1
      [] pat = "style" ->
            \* \s+style="((?:[^"\\]|\\.)*)"
            LET v == AfterSpacesThen(s, j, StyleAttr)
                e == StyleValueEnd(s, v)
            IN  IF v # -1 /\ e # -1 THEN e + 1 ELSE -1
      [] pat = "emptystyle" ->
            \* \s+style=""
            AfterSpacesThen(s, j, EmptyStyleAttr)
      [] pat = "styleblock" ->
            \* <style([^>]*)>(.*?)</style>
            LET g == OpenTagEnd(s, j, StyleOpen)
                e == Find(s, StyleClose, g + 1)
            IN  IF g # -1 /\ e # -1 THEN e + Len(StyleClose) ELSE -1
      [] pat = "afterscript" ->
            \* </script>\s*<
            LET q == SkipWs(s, j + Len(ScriptClose))
            IN  IF StartsAt(s, j, ScriptClose) /\ q < Len(s) /\ At(s, q) = "<"
                THEN q + 1 ELSE -1
      [] pat = "beforescript" ->
            \* />\s*<script
            LET q == SkipWs(s, j + Len(SelfClose))
            IN  IF StartsAt(s, j, SelfClose) /\ StartsAt(s, q, ScriptOpen)
                THEN q + Len(ScriptOpen) ELSE -1
      [] pat = "tags" ->
            \* >\s*<
            LET q == SkipWs(s, j + 1)
            IN  IF At(s, j) = ">" /\ q < Len(s) /\ At(s, q) = "<"
                THEN q + 1 ELSE -1
      [] pat = "scriptblock" ->
            \* <script[^>]*>.*?</script>
            LET g == OpenTagEnd(s, j, ScriptOpen)
                e == Find(s, ScriptClose, g + 1)
            IN  IF g # -1 /\ e # -1 THEN e + Len(ScriptClose) ELSE -1
      [] pat = "plainscript" ->
            \* <script[^>]*>[^<]+</script>
            LET g == OpenTagEnd(s, j, ScriptOpen)
                h == FirstIn(s, g + 1, {"<"})
            IN  IF g # -1 /\ h > g + 1 /\ StartsAt(s, h, ScriptClose)
                THEN h + Len(ScriptClose) ELSE -1

\* the leftmost match of pat at or after k: <<start, end>>, or <<-1, -1>>
FirstMatch(pat, s, hits) ==
    IF hits = {} THEN <<-1, -1>>
    ELSE <<Least(hits), MatchEnd(pat, s, Least(hits))>>

NextMatch(pat, s, k) ==
    FirstMatch(pat, s, { j \in k..(Len(s) - 1) : MatchEnd(pat, s, j) # -1 })

RECURSIVE Split(_, _)
\* s.split(c) for a single character c
Split(s, c) ==
    LET j == FirstIn(s, 0, {c})
    IN  IF j >= Len(s) THEN <<s>>
        ELSE <<Slice(s, 0, j)>> \o Split(Slice(s, j + 1, Len(s)), c)

\* s.replace('\n', '')
WithoutNewlines(s) == Concat(Split(s, "\n"))

\* s.rfind(lit): the last index where lit occurs, or -1
RFindStr(s, lit) ==
    LET hits == { k \in 0..(Len(s) - Len(lit)) : StartsAt(s, k, lit) }
    IN  IF hits = {} THEN -1 ELSE Greatest(hits)

\* clean_style_attr, given the text of the match and where its value starts
CleanStyleAttr(m) ==
    LET v == AfterSpacesThen(m, 0, StyleAttr)
        value == CleanInlineStyle(Slice(m, v, Len(m) - 1))
    IN  IF value = <<>> THEN <<>>
        ELSE <<" ">> \o StyleAttr \o value \o <<"\"">>

\* '    ' + line if line.strip() else ''
IndentCssLine(line) ==
    IF Strip(line) # <<>> THEN <<" ", " ", " ", " ">> \o line ELSE <<>>

\* format_embedded_style, given the text of the match
FormatEmbeddedStyle(m) ==
    LET g == OpenTagEnd(m, 0, StyleOpen)
        attrs == Slice(m, Len(StyleOpen), g)
        content == Slice(m, g + 1, Len(m) - Len(StyleClose))
        css_content == RemoveDecl(RemoveDecl(RemoveDecl(content,
                           WebkitTransform), MozTransform), MsTransform)
        formatted == Split(Unminify(css_content), "\n")
        indented_css == Join(<<"\n">>, [k \in 1..Len(formatted) |->
                                           IndentCssLine(formatted[k])])
    IN  StyleOpen \o attrs \o <<">", "\n">> \o indented_css
            \o <<"\n", " ", " ">> \o StyleClose

\* protect_script_content, given the text of the match
ProtectScriptContent(m) ==
    LET tag_end == FirstIn(m, 0, {">"}) + 1
        close_start == RFindStr(m, <<"<", "/">>)
    IN  Slice(m, 0, tag_end)
            \o WithoutNewlines(Slice(m, tag_end, close_start))
            \o Slice(m, close_start, Len(m))

\* what re.sub puts in the place of the match m of pattern pat
Replacement(pat, m) ==
    CASE pat = "style" -> CleanStyleAttr(m)
      [] pat = "styleblock" -> FormatEmbeddedStyle(m)
      [] pat = "afterscript" -> ScriptClose \o <<"\n", "<">>
      [] pat = "beforescript" -> SelfClose \o <<"\n">> \o ScriptOpen
      [] pat = "tags" -> <<">", "\n", "<">>
      [] pat = "plainscript" -> ProtectScriptContent(m)
      [] OTHER -> <<>>

RECURSIVE SubFrom(_, _, _)
\* the text from k on, given the leftmost match m at or after k
SubMatch(pat, s, k, m) ==
    IF m[1] = -1 THEN Slice(s, k, Len(s))
    ELSE Slice(s, k, m[1]) \o Replacement(pat, Slice(s, m[1], m[2]))
             \o SubFrom(pat, s, m[2])

SubFrom(pat, s, k) == SubMatch(pat, s, k, NextMatch(pat, s, k))

\* re.sub(pat, replacement, s)
Sub(pat, s) == SubFrom(pat, s, 0)

\* lines 189-193: a part that starts with a <script ...> tag is kept as it
\* is, any other is split at its tag boundaries
ProcessPart(part) ==
    IF OpenTagEnd(part, 0, ScriptOpen) # -1 THEN part ELSE Sub("tags", part)

RECURSIVE SplitPartsFrom(_, _)
\* the parts from k on, processed and joined, given the leftmost script
\* block m at or after k
SplitPartsMatch(s, k, m) ==
    IF m[1] = -1 THEN ProcessPart(Slice(s, k, Len(s)))
    ELSE ProcessPart(Slice(s, k, m[1])) \o ProcessPart(Slice(s, m[1], m[2]))
             \o SplitPartsFrom(s, m[2])

\* lines 185-195: re.split on the script blocks, the parts processed and
\* joined again
SplitPartsFrom(s, k) == SplitPartsMatch(s, k, NextMatch("scriptblock", s, k))

\* lines 145-154
StripMetadataText(s) ==
    Sub("attr5", Sub("attr4", Sub("attr3", Sub("attr2", Sub("attr1",
        Sub("published", s))))))

\* lines 157-167
CleanStylesText(s) == Sub("emptystyle", Sub("style", s))

\* lines 170-175
FormatStyleBlocksText(s) == Sub("styleblock", s)

\* lines 179-198
SplitTagsText(s) ==
    Sub("tags", SplitPartsFrom(Sub("beforescript", Sub("afterscript", s)), 0))

\* lines 201-213
ProtectScriptsText(s) == Sub("plainscript", s)

NoVoidElements == {}

\* line 221
void_elements ==
    { <<"a", "r", "e", "a">>,
      <<"b", "a", "s", "e">>,
      <<"b", "r">>,
      <<"c", "o", "l">>,
      <<"e", "m", "b", "e", "d">>,
      <<"h", "r">>,
      <<"i", "m", "g">>,
      <<"i", "n", "p", "u", "t">>,
      <<"l", "i", "n", "k">>,
      <<"m", "e", "t", "a">>,
      <<"p", "a", "r", "a", "m">>,
      <<"s", "o", "u", "r", "c", "e">>,
      <<"t", "r", "a", "c", "k">>,
      <<"w", "b", "r">> }

UpperCase ==
    <<"A", "B", "C", "D", "E", "F", "G", "H", "I", "J", "K", "L", "M", "N",
      "O", "P", "Q", "R", "S", "T", "U", "V", "W", "X", "Y", "Z">>

LowerCase ==
    <<"a", "b", "c", "d", "e", "f", "g", "h", "i", "j", "k", "l", "m", "n",
      "o", "p", "q", "r", "s", "t", "u", "v", "w", "x", "y", "z">>

Digits ==
    <<"0", "1", "2", "3", "4", "5", "6", "7", "8", "9">>

\* \w, over the characters the model's documents are written in
WordChars ==
    { UpperCase[k] : k \in 1..Len(UpperCase) }
        \cup { LowerCase[k] : k \in 1..Len(LowerCase) }
        \cup { Digits[k] : k \in 1..Len(Digits) } \cup {"_"}

LowerChar(c) ==
    IF \E k \in 1..Len(UpperCase) : UpperCase[k] = c
    THEN LowerCase[CHOOSE k \in 1..Len(UpperCase) : UpperCase[k] = c]
    ELSE c

\* s.lower()
Lower(s) == [k \in 1..Len(s) |-> LowerChar(s[k])]

\* group 1 of re.match(r'<(\w+)', stripped), or <<>> when there is no match
TagName(stripped) ==
    IF At(stripped, 0) = "<"
    THEN Slice(stripped, 1, FirstNotIn(stripped, 1, WordChars))
    ELSE <<>>

\* line 230
IsClosing(stripped) == StartsAt(stripped, 0, <<"<", "/">>)

\* lines 233-237
IsVoid(stripped) ==
    \/ EndsWith(stripped, SelfClose)
    \/ TagName(stripped) # <<>> /\ Lower(TagName(stripped)) \in void_elements

\* line 240
IsSpecial(stripped) ==
    StartsAt(stripped, 0, <<"<", "!">>) \/ StartsAt(stripped, 0, <<"<", "?">>)

\* line 243, re.match(r'<(\w+)[^>]*>.*</\1>$', stripped, re.DOTALL): group 1
\* may be any leading part of the tag name, [^>]* taking the rest of it
HasInlineClose(stripped) ==
    LET name == TagName(stripped)
        g == FirstIn(stripped, 0, {">"})
    IN  \E n \in 1..Len(name) :
            LET closing == <<"<", "/">> \o Slice(name, 0, n) \o <<">">>
            IN  /\ EndsWith(stripped, closing)
                /\ Len(stripped) - Len(closing) >= g + 1

\* lines 252-257: whether the else branch increments indent
OpensElement(stripped) ==
    /\ At(stripped, 0) = "<"
    /\ ~IsClosing(stripped)
    /\ TagName(stripped) # <<>>
    /\ Lower(TagName(stripped)) \notin void_elements

\* lines 225-257: the body of the for loop for one line, from indent ind and
\* the emitted lines out
IndentStep(line, ind, out) ==
    LET stripped == Strip(line)
    IN  IF stripped = <<>> THEN [indent |-> ind, indented |-> out]
        ELSE IF IsClosing(stripped)
        THEN [indent |-> Max(0, ind - 1),
              indented |-> Append(out, Pad(Max(0, ind - 1)) \o stripped)]
        ELSE IF IsSpecial(stripped) \/ IsVoid(stripped) \/ HasInlineClose(stripped)
        THEN [indent |-> ind, indented |-> Append(out, Pad(ind) \o stripped)]
        ELSE [indent |-> IF OpensElement(stripped) THEN ind + 1 ELSE ind,
              indented |-> Append(out, Pad(ind) \o stripped)]

\* lines 259-264
HtmlFinish(out) == CollapseBlankLines(Join(<<"\n">>, out) \o <<"\n">>)

HtmlStep(from, to, value) ==
    /\ hpc = from
    /\ html' = value
    /\ hpc' = to
    /\ UNCHANGED <<html_in, lines, ln, hindent, indented, prettified>>
    /\ UNCHANGED notHtml

StripMetadata == HtmlStep("metadata", "styles", StripMetadataText(html))

CleanStyles == HtmlStep("styles", "styleblocks", CleanStylesText(html))

FormatStyleBlocks == HtmlStep("styleblocks", "split", FormatStyleBlocksText(html))

SplitTags == HtmlStep("split", "protect", SplitTagsText(html))

ProtectScripts == HtmlStep("protect", "lines", ProtectScriptsText(html))

\* lines 216-218
SplitLines ==
    /\ hpc = "lines"
    /\ lines' = Split(html, "\n")
    /\ indented' = <<>>
    /\ hindent' = 0
    /\ ln' = 0
    /\ hpc' = "indent"
    /\ UNCHANGED <<html_in, html, prettified>>
    /\ UNCHANGED notHtml

\* one iteration of the for loop of line 224
IndentLine ==
    /\ hpc = "indent"
    /\ ln < Len(lines)
    /\ LET st == IndentStep(lines[ln + 1], hindent, indented)
       IN  /\ hindent' = st.indent
           /\ indented' = st.indented
    /\ ln' = ln + 1
    /\ UNCHANGED <<html_in, html, lines, prettified, hpc>>
    /\ UNCHANGED notHtml

HtmlReturn ==
    /\ hpc = "indent"
    /\ ln = Len(lines)
    /\ prettified' = HtmlFinish(indented)
    /\ hpc' = "done"
    /\ UNCHANGED <<html_in, html, lines, ln, hindent, indented>>
    /\ UNCHANGED notHtml

\* the documents prettify_html is called with, in four families

MaxBodyPieces == 3
MaxAttrs == 2
MaxTags == 3
MaxStylePieces == 3

\* a script block with a body of a few pieces, between two neighbours
ScriptOpenTags ==
    { <<"<", "s", "c", "r", "i", "p", "t", ">">>,
      <<"<", "s", "c", "r", "i", "p", "t", " ", "s", "r", "c", "=", "\"",
        "a", ".", "j", "s", "\"", ">">> }

ScriptBodyPieces ==
    { <<"a", ">">>,
      <<"<", "b">>,
      <<"<">>,
      <<" ">>,
      <<"\n">>,
      <<"a">> }

ScriptBefore ==
    { <<>>,
      <<"<", "b", "r", "/", ">">> }

ScriptAfter ==
    { <<>>,
      <<"<", "/", "d", "i", "v", ">">> }

ScriptDocs ==
    { before \o open \o body \o ScriptClose \o after :
        before \in ScriptBefore, open \in ScriptOpenTags,
        body \in Inputs(ScriptBodyPieces, MaxBodyPieces), after \in ScriptAfter }

\* an opening tag with a few attributes
AttrPieces ==
    { <<" ", "d", "a", "t", "a", "-", "w", "f", "-", "d", "o", "m", "a", "i",
        "n", "=", "\"", "d", "\"">>,
      <<" ", "d", "a", "t", "a", "-", "w", "f", "-", "p", "a", "g", "e", "=",
        "\"", "a", "b", "c", "\"">>,
      <<" ", "d", "a", "t", "a", "-", "w", "f", "-", "s", "i", "t", "e", "=",
        "\"", "d", "e", "f", "\"">>,
      <<" ", "d", "a", "t", "a", "-", "w", "f", "-", "p", "a", "g", "e", "-",
        "i", "d", "=", "\"", "1", "\"">>,
      <<" ", "d", "a", "t", "a", "-", "w", "f", "-", "e", "l", "e", "m", "e",
        "n", "t", "-", "i", "d", "=", "\"", "e", "\"">>,
      <<" ", "d", "a", "t", "a", "-", "w", "f", "-", "p", "a", "g", "e", "=",
        "'", "a", "b", "c", "'">>,
      <<" ", "l", "a", "n", "g", "=", "\"", "e", "n", "\"">>,
      <<"\n", " ", "c", "l", "a", "s", "s", "=", "\"", "b", "\"">>,
      <<" ", "s", "t", "y", "l", "e", "=", "\"", "-", "m", "s", "-", "t",
        "r", "a", "n", "s", "f", "o", "r", "m", ":", " ", "X", ";", " ", "c",
        "o", "l", "o", "r", ":", " ", "r", "e", "d", "\"">>,
      <<" ", "s", "t", "y", "l", "e", "=", "\"", "\"">> }

HtmlTagOpen ==
    <<"<", "h", "t", "m", "l">>

TagDocs ==
    { HtmlTagOpen \o attrs \o <<">">> : attrs \in Inputs(AttrPieces, MaxAttrs) }

\* a run of tags and text
TagPieces ==
    { <<"<", "d", "i", "v", ">">>,
      <<"<", "/", "d", "i", "v", ">">>,
      <<"<", "i", "m", "g", " ", "s", "r", "c", "=", "\"", "a", ".", "p",
        "n", "g", "\"", ">">>,
      <<"<", "b", "r", "/", ">">>,
      <<"<", "/", "a", ">", "x">>,
      <<"x">>,
      <<"<", "I", "M", "G", ">">>,
      <<"<", "s", "p", "a", "n", ">", "x", "<", "/", "s", "p", "a", "n", ">">>,
      <<"<", "!", "D", "O", "C", "T", "Y", "P", "E", " ", "h", "t", "m", "l",
        ">">> }

LineDocs == Inputs(TagPieces, MaxTags)

\* style blocks and the publication comment
StylePieces ==
    { <<"<", "s", "t", "y", "l", "e", ">">>,
      <<"<", "s", "t", "y", "l", "e", " ", "m", "e", "d", "i", "a", "=",
        "\"", "x", "\"", ">">>,
      <<"a", "{", "b", ":", "c", "}">>,
      <<"-", "w", "e", "b", "k", "i", "t", "-", "t", "r", "a", "n", "s", "f",
        "o", "r", "m", ":", "X", ";">>,
      <<"<", "/", "s", "t", "y", "l", "e", ">">>,
      <<"<", "!", "-", "-", " ", "L", "a", "s", "t", " ", "P", "u", "b", "l",
        "i", "s", "h", "e", "d", ":", " ", "M", "o", "n", " ", "-", "-", ">">>,
      <<"\n">> }

StyleDocs == Inputs(StylePieces, MaxStylePieces)

HtmlDocs == ScriptDocs \cup TagDocs \cup LineDocs \cup StyleDocs

CallPrettifyHtml(s) ==
    /\ html_in = s
    /\ html = s
    /\ lines = <<>>
    /\ ln = 0
    /\ hindent = 0
    /\ indented = <<>>
    /\ prettified = <<>>
    /\ hpc = "metadata"

IdleHtml ==
    /\ html_in = <<>>
    /\ html = <<>>
    /\ lines = <<>>
    /\ ln = 0
    /\ hindent = 0
    /\ indented = <<>>
    /\ prettified = <<>>
    /\ hpc = "idle"

NextHtml ==
    \/ StripMetadata
    \/ CleanStyles
    \/ FormatStyleBlocks
    \/ SplitTags
    \/ ProtectScripts
    \/ SplitLines
    \/ IndentLine
    \/ HtmlReturn

(***************************************************************************)
(* cleanup.py: process_css_files, process_html_files, update_css_references *)
(* and the three calls of __main__                                         *)
(***************************************************************************)

RECURSIVE IndentAll(_, _, _, _)
\* the for loop of line 224 over the lines ls from the k-th on
IndentAll(ls, k, ind, out) ==
    IF k > Len(ls) THEN out
    ELSE IndentAll(ls, k + 1, IndentStep(ls[k], ind, out).indent,
                   IndentStep(ls[k], ind, out).indented)

\* prettify_html as a function of its argument
PrettifyHtml(s) ==
    HtmlFinish(IndentAll(Split(ProtectScriptsText(SplitTagsText(
        FormatStyleBlocksText(CleanStylesText(StripMetadataText(s))))), "\n"),
        1, 0, <<>>))

\* old_name and new_name of update_css_references
OldCssName ==
    <<"d", "e", "c", "a", "s", "t", "r", "o", "f", "e", "l", "i", "p", "e",
      ".", "w", "e", "b", "f", "l", "o", "w", ".", "s", "h", "a", "r", "e",
      "d", ".", "0", "9", "8", "9", "9", "1", "e", "7", "a", ".", "m", "i",
      "n", ".", "c", "s", "s">>

NewCssName ==
    <<"d", "e", "c", "a", "s", "t", "r", "o", "f", "e", "l", "i", "p", "e",
      ".", "w", "e", "b", "f", "l", "o", "w", ".", "s", "h", "a", "r", "e",
      "d", ".", "0", "9", "8", "9", "9", "1", "e", "7", "a", ".", "c", "s",
      "s">>

DotMinCss ==
    <<".", "m", "i", "n", ".", "c", "s", "s">>

\* lines 271-274, relative to WORKSPACE
css_files ==
    << 
      <<"a", "s", "s", "e", "t", "s", "/", "6", "3", "0", "3", "b", "b", "d",
        "e", "7", "e", "8", "8", "9", "1", "5", "5", "2", "c", "3", "3", "3",
        "a", "0", "0", "/", "c", "s", "s", "/", "d", "e", "c", "a", "s", "t",
        "r", "o", "f", "e", "l", "i", "p", "e", ".", "w", "e", "b", "f", "l",
        "o", "w", ".", "s", "h", "a", "r", "e", "d", ".", "0", "9", "8", "9",
        "9", "1", "e", "7", "a", ".", "m", "i", "n", ".", "c", "s", "s">>,
      <<"a", "s", "s", "e", "t", "s", "/", "c", "s", "s", "/", "d", "e", "c",
        "a", "s", "t", "r", "o", "f", "e", "l", "i", "p", "e", ".", "w", "e",
        "b", "f", "l", "o", "w", ".", "s", "h", "a", "r", "e", "d", ".", "0",
        "9", "8", "9", "9", "1", "e", "7", "a", ".", "m", "i", "n", ".", "c",
        "s", "s">> >>

\* the file system fs with content written to path
WriteFile(fs, path, content) ==
    [f \in DOMAIN fs \cup {path} |-> IF f = path THEN content ELSE fs[f]]

\* os.remove(path)
RemoveFile(fs, path) == [f \in DOMAIN fs \ {path} |-> fs[f]]

\* lines 286-292: the formatted text goes to new_path, and filepath is
\* removed when it is another path
WriteFormatted(fs, filepath, new_path, formatted) ==
    IF new_path # filepath
    THEN RemoveFile(WriteFile(fs, new_path, formatted), filepath)
    ELSE WriteFile(fs, new_path, formatted)

\* lines 277-297: one iteration of the loop over css_files
ProcessCssFile(fs, filepath) ==
    IF filepath \in DOMAIN fs /\ Strip(fs[filepath]) # <<>>
    THEN WriteFormatted(fs, filepath, Replace(filepath, DotMinCss, DotCss),
                        Unminify(fs[filepath]))
    ELSE fs

CleanupStep(from, to, fs) ==
    /\ mpc = from
    /\ disk' = fs
    /\ mpc' = to
    /\ UNCHANGED disk0
    /\ UNCHANGED notCleanup

ProcessCssFiles ==
    CleanupStep("css", "html",
                ProcessCssFile(ProcessCssFile(disk, css_files[1]), css_files[2]))

ProcessHtmlFiles ==
    CleanupStep("html", "refs",
                [f \in DOMAIN disk |->
                    IF IsRootHtml(f) THEN PrettifyHtml(disk[f]) ELSE disk[f]])

\* update_css_references of cleanup.py
UpdateStylesheetReferences ==
    CleanupStep("refs", "done",
                [f \in DOMAIN disk |->
                    IF IsRootHtml(f) /\ Contains(disk[f], OldCssName)
                    THEN Replace(disk[f], OldCssName, NewCssName)
                    ELSE disk[f]])

\* the file systems the run starts from: each of the two minified
\* stylesheets and each of their targets is absent (<<>>) or present with
\* some content (<<content>>), and index.html holds a few references
MaxLinks == 2

MinCssContents ==
    { <<>>,
      <<" ", "\n">>,
      <<"a", "{", "b", ":", "c", "}">> }

TargetContents ==
    { <<"a", " ", "{", "\n", "}", "\n">> }

LinkPieces ==
    { <<"<", "l", "i", "n", "k", " ", "h", "r", "e", "f", "=", "\"", "a",
        "s", "s", "e", "t", "s", "/", "6", "3", "0", "3", "b", "b", "d", "e",
        "7", "e", "8", "8", "9", "1", "5", "5", "2", "c", "3", "3", "3", "a",
        "0", "0", "/", "c", "s", "s", "/", "d", "e", "c", "a", "s", "t", "r",
        "o", "f", "e", "l", "i", "p", "e", ".", "w", "e", "b", "f", "l", "o",
        "w", ".", "s", "h", "a", "r", "e", "d", ".", "0", "9", "8", "9", "9",
        "1", "e", "7", "a", ".", "m", "i", "n", ".", "c", "s", "s", "\"",
        ">">>,
      <<"<", "l", "i", "n", "k", " ", "h", "r", "e", "f", "=", "\"", "a",
        "s", "s", "e", "t", "s", "/", "c", "s", "s", "/", "d", "e", "c", "a",
        "s", "t", "r", "o", "f", "e", "l", "i", "p", "e", ".", "w", "e", "b",
        "f", "l", "o", "w", ".", "s", "h", "a", "r", "e", "d", ".", "0", "9",
        "8", "9", "9", "1", "e", "7", "a", ".", "m", "i", "n", ".", "c", "s",
        "s", "\"", ">">>,
      <<"<", "p", ">", "x", "<", "/", "p", ">">> }

Optional(contents) == {<<>>} \cup { <<c>> : c \in contents }

FileSystem(entries) ==
    [f \in { e[1] : e \in { x \in entries : x[2] # <<>> } } |->
        (CHOOSE e \in entries : e[1] = f)[2][1]]

CleanupFileSystems ==
    { FileSystem({ <<css_files[1], m1>>, <<css_files[2], m2>>,
                   <<Replace(css_files[1], DotMinCss, DotCss), t1>>,
                   <<Replace(css_files[2], DotMinCss, DotCss), t2>>,
                   <<IndexHtml, <<page>> >> }) :
        m1 \in Optional(MinCssContents), m2 \in Optional(MinCssContents),
        t1 \in Optional(TargetContents), t2 \in Optional(TargetContents),
        page \in Inputs(LinkPieces, MaxLinks) }

CallCleanupMain(fs) ==
    /\ disk = fs
    /\ disk0 = fs
    /\ mpc = "css"

IdleCleanup ==
    /\ disk = <<>>
    /\ disk0 = <<>>
    /\ mpc = "idle"

NextCleanup ==
    \/ ProcessCssFiles
    \/ ProcessHtmlFiles
    \/ UpdateStylesheetReferences

(***************************************************************************)
(* The specifications: one per function under study                        *)
(***************************************************************************)

InitCss ==
    /\ \E s \in Inputs(CssPieces, MaxCssPieces) : CallUnminify(s)
    /\ IdleStyle /\ IdleName /\ IdleRename /\ IdleHtml /\ IdleCleanup

SpecCss == InitCss /\ [][NextCss]_vars

InitStyle ==
    /\ \E s \in StyleInputs : CallCleanInlineStyle(s)
    /\ IdleCss /\ IdleName /\ IdleRename /\ IdleHtml /\ IdleCleanup

SpecStyle == InitStyle /\ [][NextStyle]_vars

InitName ==
    /\ \E name \in NameInputs : CallStripHexPrefix(name)
    /\ IdleCss /\ IdleStyle /\ IdleRename /\ IdleHtml /\ IdleCleanup

SpecName == InitName /\ [][NextName]_vars

InitRename ==
    /\ \E assets \in { A \in SUBSET AssetCandidates : Cardinality(A) <= MaxAssets } :
          \E doc \in Inputs(RefPieces(assets), MaxRefs) :
              CallRenameMain(assets, doc)
    /\ IdleCss /\ IdleStyle /\ IdleName /\ IdleHtml /\ IdleCleanup

SpecRename == InitRename /\ [][NextRename]_vars

InitHtml ==
    /\ \E s \in HtmlDocs : CallPrettifyHtml(s)
    /\ IdleCss /\ IdleStyle /\ IdleName /\ IdleRename /\ IdleCleanup

SpecHtml == InitHtml /\ [][NextHtml]_vars

InitCleanup ==
    /\ \E fs \in CleanupFileSystems : CallCleanupMain(fs)
    /\ IdleCss /\ IdleStyle /\ IdleName /\ IdleRename /\ IdleHtml

SpecCleanup == InitCleanup /\ [][NextCleanup]_vars

(***************************************************************************)
(* Claims about unminify_css                                               *)
(***************************************************************************)

\* no prefix of s holds more '}' than '{'
Nested(s) ==
    \A n \in 0..Len(s) :
        Count(SubSeq(s, 1, n), "{") >= Count(SubSeq(s, 1, n), "}")

BraceCountsEqual(s) == Count(s, "{") = Count(s, "}")

\* C4 as stated: whenever the input holds as many '{' as '}', the indent
\* counter is never negative during the scan and is 0 when the scan has ended.
C4_BraceBalance ==
    BraceCountsEqual(css) => (indent >= 0 /\ (pc = "done" => indent = 0))

\* C4 amended: the indent counter is never negative, for every input; and it
\* is 0 when the scan has ended for every input without a comment opener whose
\* braces are balanced and properly nested (no '}' before its '{').
C4_BraceBalanceNested ==
    /\ indent >= 0
    /\ (pc = "done" /\ BraceCountsEqual(css) /\ Nested(css)
            /\ ~Contains(css, CommentOpen)) => indent = 0

\* a finished scan of a balanced, nested input with two levels of braces
C4_Witness ==
    /\ pc = "done" /\ pass = 1
    /\ BraceCountsEqual(css) /\ Nested(css) /\ ~Contains(css, CommentOpen)
    /\ Count(css, "{") = 2
    /\ indent = 0

\* C5 as stated: unminify_css(unminify_css(s)) = unminify_css(s) for every s.
C5_Idempotent == (pc = "done" /\ pass = 2) => text = first

\* C10: every iteration of the scan loop moves the cursor forward and never
\* past the end; the call returns with the cursor at len(css) and a string
\* that ends in a newline; the loop takes at most len(css) iterations.
C10_Terminates ==
    /\ [][iters' = iters + 1 => (i' > i /\ i' <= Len(css))]_vars
    /\ [](iters <= Len(css))
    /\ [](pc = "done" =>
            (i = Len(css) /\ text # <<>> /\ text[Len(text)] = "\n"))

\* a call that returned after the loop took each of its branches' worth of
\* iterations on a malformed input (an unbalanced '}' and an open comment)
C10_Witness ==
    /\ pc = "done" /\ pass = 1 /\ iters >= 3
    /\ ~BraceCountsEqual(css)
    /\ Contains(css, CommentOpen) /\ ~Contains(css, CommentClose)

(***************************************************************************)
(* Claims about clean_inline_style                                         *)
(***************************************************************************)

RECURSIVE Declarations(_)
\* the declarations of a style value: its pieces between semicolons, each
\* without surrounding whitespace, the empty ones left out
Declarations(s) ==
    LET semi == Find(s, <<";">>, 0)
        head == Strip(IF semi = -1 THEN s ELSE Slice(s, 0, semi))
        rest == IF semi = -1 THEN <<>>
                ELSE Declarations(Slice(s, semi + 1, Len(s)))
    IN  IF s = <<>> THEN <<>>
        ELSE IF head = <<>> THEN rest ELSE <<head>> \o rest

IsVendorTransform(decl) ==
    \/ StartsAt(decl, 0, WebkitTransform)
    \/ StartsAt(decl, 0, MozTransform)
    \/ StartsAt(decl, 0, MsTransform)

IsKept(decl) == ~IsVendorTransform(decl)

C6_Example ==
    <<"-", "w", "e", "b", "k", "i", "t", "-", "t", "r", "a", "n", "s", "f",
      "o", "r", "m", ":", " ", "X", ";", " ", "t", "r", "a", "n", "s", "f",
      "o", "r", "m", ":", " ", "s", "c", "a", "l", "e", "(", "1", ")", ";",
      " ", "-", "m", "o", "z", "-", "t", "r", "a", "n", "s", "f", "o", "r",
      "m", ":", " ", "Y", ";">>

C6_ExampleResult ==
    <<"t", "r", "a", "n", "s", "f", "o", "r", "m", ":", " ", "s", "c", "a",
      "l", "e", "(", "1", ")">>

\* C6 as stated: the returned value holds exactly the declarations of the
\* argument that are not vendor-prefixed transforms, in order (a vendor
\* declaration is removed whether it ends at a semicolon or at the end of the
\* value); it has no leading or trailing semicolon or whitespace; and the
\* worked example returns 'transform: scale(1)'.
C6_RemovesVendorTransforms ==
    spc = "done" =>
        /\ Declarations(cleaned) = SelectSeq(Declarations(style_value), IsKept)
        /\ cleaned # <<>> =>
              /\ Head(cleaned) \notin PyWhitespace \cup {";"}
              /\ cleaned[Len(cleaned)] \notin PyWhitespace \cup {";"}
        /\ style_value = C6_Example => cleaned = C6_ExampleResult

(***************************************************************************)
(* Claims about strip_hex_prefix                                           *)
(***************************************************************************)

\* the filename is 20 or more hexadecimal characters, an underscore and a
\* non-empty remainder
HasHexPrefix(name) ==
    LET n == HexRun(name, 0)
    IN  n >= MinHexLen /\ n + 1 < Len(name) /\ At(name, n) = "_"

\* that remainder
Remainder(name) == Slice(name, HexRun(name, 0) + 1, Len(name))

\* C8 as stated: a filename of 20 or more hex characters, an underscore and a
\* non-empty remainder gives exactly the remainder; any other filename is
\* returned unchanged.
C8_StripHexPrefix ==
    npc = "done" =>
        new_name = IF HasHexPrefix(filename) THEN Remainder(filename)
                   ELSE filename

(***************************************************************************)
(* Claims about the asset renamer                                          *)
(***************************************************************************)

\* C2 as stated: when main() is through, no root-level HTML file and no CSS
\* file under assets/ holds an old path of the rename map, raw or URL-encoded.
C2_ReferenceConsistency ==
    rpc = "done" =>
        \A k \in 1..Len(renames) :
            \A f \in DOMAIN files :
                (IsRootHtml(f) \/ IsAssetCss(f)) =>
                    /\ ~Contains(files[f], renames[k][1])
                    /\ ~Contains(files[f], Quote(renames[k][1]))

\* C3 as stated: the rename map collect_renames builds is injective: no two
\* distinct old paths have the same new path.
C3_RenamesInjective ==
    rpc # "collect" =>
        \A a, b \in 1..Len(renames) :
            renames[a][1] # renames[b][1] => renames[a][2] # renames[b][2]

RECURSIVE ScriptBodiesFrom(_, _)
\* the bodies of the script blocks of s, in order, each without its newlines
ScriptBodiesFrom(s, k) ==
    LET m == NextMatch("scriptblock", s, k)
        g == OpenTagEnd(s, m[1], ScriptOpen)
    IN  IF m[1] = -1 THEN <<>>
        ELSE <<WithoutNewlines(Slice(s, g + 1, m[2] - Len(ScriptClose)))>>
                 \o ScriptBodiesFrom(s, m[2])

ScriptBodies(s) == ScriptBodiesFrom(s, 0)

\* C1: when prettify_html returns, the body of every script block of its
\* argument is in the output with the same characters other than newlines, in
\* the same order: the script blocks of the output have, block for block, the
\* bodies of the script blocks of the input once newlines are left out.
C1_ScriptBodiesKept ==
    hpc = "done" => ScriptBodies(prettified) = ScriptBodies(html_in)

MetadataNames ==
    { Slice(MetadataAttrs[k], 0, Len(MetadataAttrs[k]) - 1) :
        k \in 1..Len(MetadataAttrs) }

OtherAttrs ==
    { <<"l", "a", "n", "g", "=", "\"", "e", "n", "\"">>,
      <<"c", "l", "a", "s", "s", "=", "\"", "b", "\"">> }

\* C7: when prettify_html returns, no data-wf-domain, data-wf-page,
\* data-wf-site, data-wf-page-id or data-wf-element-id attribute of the
\* argument is left in the output, whatever its value, and every other
\* attribute of the argument is in the output as it was written.
C7_MetadataStripped ==
    hpc = "done" =>
        /\ \A name \in MetadataNames : ~Contains(prettified, name)
        /\ \A attr \in OtherAttrs :
               Contains(html_in, attr) => Contains(prettified, attr)

HtmlVoidTags ==
    { <<"a", "r", "e", "a">>,
      <<"b", "a", "s", "e">>,
      <<"b", "r">>,
      <<"c", "o", "l">>,
      <<"e", "m", "b", "e", "d">>,
      <<"h", "r">>,
      <<"i", "m", "g">>,
      <<"i", "n", "p", "u", "t">>,
      <<"l", "i", "n", "k">>,
      <<"m", "e", "t", "a">>,
      <<"p", "a", "r", "a", "m">>,
      <<"s", "o", "u", "r", "c", "e">>,
      <<"t", "r", "a", "c", "k">>,
      <<"w", "b", "r">> }

\* a line whose tag is a void element, or that ends with '/>'
VoidLine(stripped) ==
    /\ stripped # <<>>
    /\ \/ EndsWith(stripped, <<"/", ">">>)
       \/ TagName(stripped) # <<>> /\ Lower(TagName(stripped)) \in HtmlVoidTags

ClosingLine(stripped) == StartsAt(stripped, 0, <<"<", "/">>)

LeadingSpaces(line) == FirstNotIn(line, 0, {" "})

\* the line the for loop takes in this step
CurrentLine == IF ln < Len(lines) THEN Strip(lines[ln + 1]) ELSE <<>>

TakesLine == hpc = "indent" /\ ln < Len(lines) /\ ln' = ln + 1

\* the line after each void line that is not a closing tag is emitted as
\* deep as the void line
SiblingsAligned(closingToo) ==
    \A k \in 1..(Len(indented) - 1) :
        (/\ VoidLine(Strip(indented[k]))
         /\ closingToo \/ ~ClosingLine(Strip(indented[k]))
         /\ ~ClosingLine(Strip(indented[k + 1])))
        => LeadingSpaces(indented[k + 1]) = LeadingSpaces(indented[k])

\* C9, as the specification states it: the for loop leaves the indent counter
\* as it found it on every line whose tag is a void element or that ends with
\* '/>', and emits the next sibling line as deep as that line.
C9_VoidKeepsIndent ==
    /\ [][(TakesLine /\ VoidLine(CurrentLine)) => hindent' = hindent]_vars
    /\ [](SiblingsAligned(TRUE))

\* C9, for the lines that do not start with '</': the for loop leaves the
\* indent counter as it found it on every such line whose tag is a void
\* element or that ends with '/>', and emits the next sibling line as deep as
\* that line.
C9_VoidKeepsIndentUnlessClosing ==
    /\ [][(TakesLine /\ VoidLine(CurrentLine) /\ ~ClosingLine(CurrentLine))
             => hindent' = hindent]_vars
    /\ [](SiblingsAligned(FALSE))

\* a void line was taken inside an open element and its sibling follows it
C9_Witness ==
    /\ hpc = "done"
    /\ \E k \in 1..(Len(indented) - 1) :
          /\ VoidLine(Strip(indented[k]))
          /\ ~ClosingLine(Strip(indented[k]))
          /\ ~ClosingLine(Strip(indented[k + 1]))
          /\ LeadingSpaces(indented[k]) > 0

\* the two stylesheets the run is about, relative to WORKSPACE
StylesheetPaths == { css_files[k] : k \in 1..Len(css_files) }

\* C11: when the three calls of __main__ have run, no page holds a dangling
\* stylesheet reference: for every root HTML file that referenced one of the
\* two .min.css paths before the run, when that file existed before the run,
\* the file named by the rewritten reference (the same path ending in
\* 098991e7a.css) exists after the run - also when the .min.css file was empty
\* or held only whitespace and was skipped.
C11_NoDanglingReference ==
    mpc = "done" =>
        \A f \in DOMAIN disk0 : \A path \in StylesheetPaths :
            (IsRootHtml(f) /\ Contains(disk0[f], path) /\ path \in DOMAIN disk0)
            => /\ Contains(disk[f], Replace(path, DotMinCss, DotCss))
               /\ Replace(path, DotMinCss, DotCss) \in DOMAIN disk

====
